---- MODULE Spec2Model ----
(***************************************************************************)
(* Model of the request/sequence lifecycle core of rllm:                   *)
(*   src/infer/src/seq.rs    Sequence, SequenceGroup, SeqOutput            *)
(*   src/rllm/src/logits.rs  LogitsProcessor (sampler)                     *)
(* BlockRef (crate::blocks), SamplingParams (crate::config) and the        *)
(* scheduler that drives the phase changes are not part of the sources at  *)
(* hand; the few definitions that stand for them are marked as such.       *)
(***************************************************************************)
EXTENDS Integers, Sequences, FiniteSets, TLC

VARIABLES
    seqs,             \* SequenceGroup.seqs : Vec<Sequence>
    sampling_params,  \* SequenceGroup.sampling_params (best_of, use_beam_search)
    gpu_refs,         \* reference count of every GPU block (shared state behind BlockRef)
    cpu_refs,         \* reference count of every CPU block
    prs,              \* the probability vector handed to the sampler (mutated in place)
    top_p,            \* LogitsProcessor.top_p, in units of 1/Units
    sampled,          \* what the sampler call returned (Result<u32>), once made
    processors,       \* the LogitsProcessor instances under comparison
    results,          \* what the last sample call of each instance returned
    rng_stream,       \* the values StdRng::seed_from_u64(Seed) yields, in order
    input             \* the tensors read by the last sample call

vars == <<seqs, sampling_params, gpu_refs, cpu_refs, prs, top_p, sampled,
          processors, results, rng_stream, input>>
processorVars == <<processors, results, rng_stream, input>>
seqVars == <<seqs, sampling_params, gpu_refs, cpu_refs>>
samplerVars == <<prs, top_p, sampled>>

----------------------------------------------------------------------------
(* Bounds of the model *)

\* values of SamplingParams.best_of; a group never holds more branches than best_of
BestOfs == {1, 2, 3}
\* append_token_id is applied only to buffers shorter than MaxLen
MaxLen == 2

\* block_size given to Sequence::new
BlockSizes == {2}
\* indices of the physical blocks of each device
GpuBlockIndices == {0, 1}
CpuBlockIndices == {0}
SeqIds == {0, 1, 2}
\* token ids: prompts are built from PromptTokens, the model generates GenTokens
PromptTokens == {10}
GenTokens == {20}
Prompts == {<<t>> : t \in PromptTokens}

\* probabilities are multiples of 1/Units; 1.0 is Units
Units == 20
\* the vocabulary: token ids, entry t of a probability vector is at index t + 1
Vocab == {0, 1, 2, 3}

FinishReasons == {"FoundEos", "MaxTokensReached", "Aborted", "Failed"}
\* the reasons the model lets the scheduler finish a sequence with
ReportedReasons == {"FoundEos", "Aborted"}
Waiting == [tag |-> "Waiting"]
Running == [tag |-> "Running"]
Swapped == [tag |-> "Swapped"]
Finished(reason) == [tag |-> "Finished", reason |-> reason]
SchedulingPhases == {Waiting, Running, Swapped} \cup {Finished(r) : r \in FinishReasons}

None == [some |-> FALSE]
Some(v) == [some |-> TRUE, val |-> v]

\* Result<u32> of a sampler call
NotCalled == [called |-> FALSE]
Ok(token) == [called |-> TRUE, ok |-> TRUE, token |-> token]
Err == [called |-> TRUE, ok |-> FALSE]

\* a call that returns a value, and a call that panics
Returned(v) == [returned |-> v]
Panic(msg) == [panic |-> msg]

Range(f) == {f[i] : i \in DOMAIN f}

RECURSIVE SumOver(_, _)
SumOver(p, S) ==
    IF S = {} THEN 0
    ELSE LET i == CHOOSE j \in S : TRUE IN p[i] + SumOver(p, S \ {i})

----------------------------------------------------------------------------
(* BlockRef *)

\* BlockRef::get_index: a block handle is modelled by the index it names
get_index(b) == b

\* BlockRef::fork: one more owner of the block
BlockRef_fork(refs, b) == [refs EXCEPT ![b] = @ + 1]

----------------------------------------------------------------------------
(* Sequence *)

_append_tokens_to_blocks(s, token_ids) == [s EXCEPT !.tokens = @ \o token_ids]

new(seq_id, tokens, block_size) ==
    _append_tokens_to_blocks(
        [seq_id |-> seq_id,
         sched_phase |-> Waiting,
         step_type |-> "Prompt",
         tokens |-> <<>>,
         prompt_len |-> Len(tokens),
         gpu_blocks |-> <<>>,
         cpu_blocks |-> <<>>,
         block_size |-> block_size],
        tokens)

get_len(s) == Len(s.tokens)

get_gen_len(s) == Len(s.tokens) - s.prompt_len

\* get_gpu_slot that forgets to scale the block index by the block size
get_gpu_slot_unscaled(s, position) ==
    LET block_index == get_index(s.gpu_blocks[(position \div s.block_size) + 1])
        block_offset == position % s.block_size
    IN  block_index + block_offset

\* get_gpu_slot that takes the quotient, not the remainder, as the offset
get_gpu_slot_quotient(s, position) ==
    LET block_index == get_index(s.gpu_blocks[(position \div s.block_size) + 1])
        block_offset == position \div s.block_size
    IN  block_index * s.block_size + block_offset

get_gpu_slot(s, position) ==
    LET block_index == get_index(s.gpu_blocks[(position \div s.block_size) + 1])
        block_offset == position % s.block_size
    IN  block_index * s.block_size + block_offset

\* the lookup with the block number wrapped into the list instead of checked
get_gpu_slot_result_wrapping(s, position) ==
    IF s.gpu_blocks = <<>>
    THEN Panic("index out of bounds")
    ELSE LET k == ((position \div s.block_size) % Len(s.gpu_blocks)) + 1
         IN  Returned(get_index(s.gpu_blocks[k]) * s.block_size
                          + (position % s.block_size))

\* get_gpu_slot with the bounds check of Vec indexing: gpu_blocks[n] panics
\* unless n < gpu_blocks.len()
get_gpu_slot_result(s, position) ==
    IF position \div s.block_size >= Len(s.gpu_blocks)
    THEN Panic("index out of bounds")
    ELSE Returned(get_gpu_slot(s, position))

\* the block handles copied without BlockRef::fork: no count changes
ForkRefs_plain_copy(refs, blocks) == refs

\* the reference counts after `blocks.iter().map(|x| x.fork())` has run
RECURSIVE ForkRefs(_, _)
ForkRefs(refs, blocks) ==
    IF blocks = <<>> THEN refs
    ELSE ForkRefs(BlockRef_fork(refs, Head(blocks)), Tail(blocks))

fork_as(s, seq_id) ==
    _append_tokens_to_blocks(
        [seq_id |-> seq_id,
         sched_phase |-> s.sched_phase,
         step_type |-> s.step_type,
         tokens |-> s.tokens,
         prompt_len |-> s.prompt_len,
         gpu_blocks |-> s.gpu_blocks,
         cpu_blocks |-> s.cpu_blocks,
         block_size |-> s.block_size],
        s.tokens)

\* append_token_id that puts the token in front of the buffer
append_token_id_front(s, token_id) == [s EXCEPT !.tokens = <<token_id>> \o @]

append_token_id(s, token_id) == _append_tokens_to_blocks(s, <<token_id>>)

\* finish_reason whose match never takes the Finished arm
finish_reason_never(s) == None

finish_reason(s) ==
    IF s.sched_phase.tag = "Finished" THEN Some(s.sched_phase.reason) ELSE None

get_output(s) ==
    [seq_id |-> s.seq_id,
     output_tokens |-> SubSeq(s.tokens, s.prompt_len + 1, Len(s.tokens)),
     finish_reason |-> finish_reason(s)]

is_finished(s) == finish_reason(s).some

----------------------------------------------------------------------------
(* SequenceGroup *)

get_seqs(status) ==
    IF status.some
    THEN SelectSeq(seqs, LAMBDA seq : seq.sched_phase = status.val)
    ELSE seqs

num_seqs(status) == Len(get_seqs(status))

\* get_max_num_running_seqs comparing best_of >= num_seqs instead of >
get_max_num_running_seqs_ge ==
    IF sampling_params.use_beam_search
    THEN sampling_params.best_of
    ELSE IF sampling_params.best_of >= num_seqs(None)
         THEN sampling_params.best_of
         ELSE num_seqs(Some(Running))

get_max_num_running_seqs ==
    IF sampling_params.use_beam_search
    THEN sampling_params.best_of
    ELSE IF sampling_params.best_of > num_seqs(None)
         THEN sampling_params.best_of
         ELSE num_seqs(Some(Running))

\* only_seq that hands out the first member of any non-empty group
only_seq_first ==
    IF Len(seqs) >= 1 THEN Returned(seqs[1]) ELSE Panic("num seq != 1")

only_seq ==
    IF Len(seqs) = 1 THEN Returned(seqs[1]) ELSE Panic("num seq != 1")

\* is_finished with any() in place of all()
group_any_finished == \E i \in 1 .. Len(seqs) : is_finished(seqs[i])

group_is_finished == \A i \in 1 .. Len(seqs) : is_finished(seqs[i])

----------------------------------------------------------------------------
(* LogitsProcessor *)

\* `order` with index i put behind every index whose probability is not smaller:
\* one step of the stable sort by descending probability
RECURSIVE InsertDescending(_, _, _)
InsertDescending(p, order, i) ==
    IF order = <<>> THEN <<i>>
    ELSE IF p[Head(order)] >= p[i]
         THEN <<Head(order)>> \o InsertDescending(p, Tail(order), i)
         ELSE <<i>> \o order

\* argsort_indices after sort_by: the indices of p by descending probability,
\* equal probabilities in index order
RECURSIVE ArgsortFrom(_, _, _)
ArgsortFrom(p, order, i) ==
    IF i > Len(p) THEN order
    ELSE ArgsortFrom(p, InsertDescending(p, order, i), i + 1)

argsort_indices(p) == ArgsortFrom(p, <<>>, 1)

\* the clamping test written cumsum > top_p
ClampStep_strict(p, cumsum, limit, index) ==
    IF cumsum > limit
    THEN [p |-> [p EXCEPT ![index] = 0], cumsum |-> cumsum]
    ELSE [p |-> p, cumsum |-> cumsum + p[index]]

\* what one pass of the clamping loop does with the entry `index`
ClampStep(p, cumsum, limit, index) ==
    IF cumsum >= limit
    THEN [p |-> [p EXCEPT ![index] = 0], cumsum |-> cumsum]
    ELSE [p |-> p, cumsum |-> cumsum + p[index]]

\* the clamping loop over the rest of argsort_indices
RECURSIVE ClampLoop(_, _, _, _)
ClampLoop(p, order, cumsum, limit) ==
    IF order = <<>> THEN p
    ELSE LET st == ClampStep(p, cumsum, limit, Head(order))
         IN  ClampLoop(st.p, Tail(order), st.cumsum, limit)

\* prs as sample_topp leaves it before it samples
clamped(p, limit) == ClampLoop(p, argsort_indices(p), 0, limit)

\* sample_multinomial: WeightedIndex::new refuses an empty vector, a negative
\* weight and an all-zero vector; otherwise the generator picks an index of
\* positive weight
sample_multinomial(p) ==
    IF \/ p = <<>>
       \/ \E i \in DOMAIN p : p[i] < 0
       \/ \A i \in DOMAIN p : p[i] = 0
    THEN {Err}
    ELSE {Ok(i - 1) : i \in {j \in DOMAIN p : p[j] > 0}}

\* the seed LogitsProcessor::new gives its generator
Seed == 42

\* temperatures are counted in multiples of the threshold
SAMPLING_EPS == 1

\* StdRng::seed_from_u64: a generator is the seed it was built from and the
\* number of values drawn from it so far
seed_from_u64(seed) == [seed |-> seed, drawn |-> 0]

\* LogitsProcessor::new (the tokenizer handle serves the log lines only)
LogitsProcessor_new(params) ==
    [rng           |-> seed_from_u64(Seed),
     temperature   |-> IF params.temperature < SAMPLING_EPS
                       THEN None
                       ELSE Some(params.temperature),
     top_p         |-> params.top_p,
     num_ambiguous |-> 0]

\* a method of LogitsProcessor leaves the processor in some state and returns
\* or panics
Outcome(lp, result) == [lp |-> lp, result |-> result]

\* logits_v after sort_by: the indices by descending logit, equal logits in
\* index order (the sort is stable)
logits_v(logits) == ArgsortFrom(logits, <<>>, 1)

\* the test d < 0.05 on the absolute margin top1 - top2
is_ambiguous_absolute(top1, top2) == 20 * (top1 - top2) < 1

\* d < 0.05 for d = (top1 - top2) / top1 as IEEE division gives it, top1 >= top2:
\* for top1 > 0 the quotient is compared; for top1 < 0 it is <= 0; for
\* top1 = 0 it is NaN or +inf and the comparison is false
is_ambiguous(top1, top2) ==
    IF top1 > 0 THEN 20 * (top1 - top2) < top1
    ELSE top1 < 0

\* sample_argmax that draws from the generator to break ties
sample_argmax_drawing(lp, logits) ==
    IF Len(logits) < 2
    THEN Outcome(lp, Panic("index out of bounds"))
    ELSE LET order == logits_v(logits)
         IN  Outcome(IF is_ambiguous(logits[order[1]], logits[order[2]])
                     THEN [lp EXCEPT !.num_ambiguous = @ + 1, !.rng.drawn = @ + 1]
                     ELSE lp,
                     Ok(order[1] - 1))

\* LogitsProcessor::sample_argmax; logits_v[0] and logits_v[1] panic on a
\* tensor of fewer than two logits
sample_argmax(lp, logits) ==
    IF Len(logits) < 2
    THEN Outcome(lp, Panic("index out of bounds"))
    ELSE LET order == logits_v(logits)
         IN  Outcome(IF is_ambiguous(logits[order[1]], logits[order[2]])
                     THEN [lp EXCEPT !.num_ambiguous = @ + 1]
                     ELSE lp,
                     Ok(order[1] - 1))

\* a generator seeded from the operating system: any value may come next
gen_range_entropy(rng, total) == 0 .. (total - 1)

\* the uniform value below `total` that distr.sample takes from the generator:
\* the next value of the stream of its seed
gen_range(rng, total) == {rng_stream[rng.drawn + 1] % total}

\* WeightedIndex::sample: the first index whose cumulative weight exceeds x
RECURSIVE WeightedIndex_sample(_, _, _)
WeightedIndex_sample(p, x, i) ==
    IF x < p[i] THEN i ELSE WeightedIndex_sample(p, x - p[i], i + 1)

\* LogitsProcessor::sample_multinomial on a processor: WeightedIndex::new(prs)?
\* returns the error without touching the generator, otherwise one value is
\* drawn from self.rng
sample_multinomial_with(lp, p) ==
    IF sample_multinomial(p) = {Err}
    THEN {Outcome(lp, Err)}
    ELSE {Outcome([lp EXCEPT !.rng.drawn = @ + 1],
                  Ok(WeightedIndex_sample(p, x, 1) - 1)) :
             x \in gen_range(lp.rng, SumOver(p, DOMAIN p))}

\* sample_topp that turns a sampling error into token 0
sample_topp_coerced(lp, p, limit) ==
    {IF o.result = Err THEN Outcome(o.lp, Ok(0)) ELSE o :
        o \in sample_multinomial_with(lp, clamped(p, limit))}

\* LogitsProcessor::sample_topp
sample_topp(lp, p, limit) == sample_multinomial_with(lp, clamped(p, limit))

\* the branch test written top_p < 0.0 || top_p > 1.0
sample_mode_open(lp) ==
    IF lp.temperature = None THEN "sample_argmax"
    ELSE IF lp.top_p < 0 \/ lp.top_p > Units THEN "sample_multinomial"
    ELSE "sample_topp"

\* the method LogitsProcessor::sample hands the step to
sample_mode(lp) ==
    IF lp.temperature = None THEN "sample_argmax"
    ELSE IF lp.top_p <= 0 \/ lp.top_p >= Units THEN "sample_multinomial"
    ELSE "sample_topp"

\* the outcomes of the method `path`, marked with its name
Taken(path, outcomes) ==
    {[lp |-> o.lp, result |-> o.result, path |-> path] : o \in outcomes}

\* LogitsProcessor::sample. `tensor` is what the branch taken reads: the logits
\* in greedy mode, softmax(logits / temperature) otherwise (the tensor library
\* computes it); `?` hands an error of the called method on unchanged
sample(lp, tensor) ==
    CASE sample_mode(lp) = "sample_argmax" ->
             Taken("sample_argmax", {sample_argmax(lp, tensor)})
      [] sample_mode(lp) = "sample_multinomial" ->
             Taken("sample_multinomial", sample_multinomial_with(lp, tensor))
      [] sample_mode(lp) = "sample_topp" ->
             Taken("sample_topp", sample_topp(lp, tensor, lp.top_p))

----------------------------------------------------------------------------
(* Initial state: a group built around one freshly constructed sequence *)

ZeroRefs(indices) == [b \in indices |-> 0]

SamplerIdle ==
    /\ prs = <<>>
    /\ top_p = 0
    /\ sampled = NotCalled

ProcessorIdle ==
    /\ processors = <<>>
    /\ results = <<>>
    /\ rng_stream = <<>>
    /\ input = <<>>

Init ==
    /\ \E p \in Prompts, bs \in BlockSizes :
           seqs = <<new(0, p, bs)>>
    /\ \E n \in BestOfs, beam \in BOOLEAN :
           sampling_params = [best_of |-> n, use_beam_search |-> beam]
    /\ gpu_refs = ZeroRefs(GpuBlockIndices)
    /\ cpu_refs = ZeroRefs(CpuBlockIndices)
    /\ SamplerIdle
    /\ ProcessorIdle

----------------------------------------------------------------------------
(* Operations on the group *)

UsedIds == {seqs[i].seq_id : i \in 1 .. Len(seqs)}

\* a decode step whose token also lands in the buffers of the members that
\* share member i's block list
AppendToken_shared_buffer(i, token_id) ==
    /\ seqs[i].sched_phase = Running
    /\ Len(seqs[i].tokens) < MaxLen
    /\ seqs' = [j \in 1 .. Len(seqs) |->
                   IF seqs[j].gpu_blocks = seqs[i].gpu_blocks
                   THEN append_token_id(seqs[j], token_id)
                   ELSE seqs[j]]
    /\ UNCHANGED <<sampling_params, gpu_refs, cpu_refs, prs, top_p, sampled, processorVars>>

\* one decode step of member i: the engine samples for running sequences only,
\* then Sequence::append_token_id
AppendToken(i, token_id) ==
    /\ seqs[i].sched_phase = Running
    /\ Len(seqs[i].tokens) < MaxLen
    /\ seqs' = [seqs EXCEPT ![i] = append_token_id(@, token_id)]
    /\ UNCHANGED <<sampling_params, gpu_refs, cpu_refs, prs, top_p, sampled, processorVars>>

\* branch expansion of a running member: seqs[i].fork_as(new_id), then
\* SequenceGroup::add of the fork; a group grows to best_of branches at most
ForkAs(i, new_id) ==
    /\ seqs[i].sched_phase = Running
    /\ Len(seqs) < sampling_params.best_of
    /\ seqs' = Append(seqs, fork_as(seqs[i], new_id))
    /\ gpu_refs' = ForkRefs(gpu_refs, seqs[i].gpu_blocks)
    /\ cpu_refs' = ForkRefs(cpu_refs, seqs[i].cpu_blocks)
    /\ UNCHANGED <<sampling_params, prs, top_p, sampled, processorVars>>

\* the allocator hands member i (admitted or running) one more GPU block that
\* nobody owns yet
AllocGpuBlock(i, b) ==
    /\ seqs[i].sched_phase \in {Waiting, Running}
    /\ gpu_refs[b] = 0
    /\ seqs' = [seqs EXCEPT ![i].gpu_blocks = Append(@, b)]
    /\ gpu_refs' = [gpu_refs EXCEPT ![b] = 1]
    /\ UNCHANGED <<sampling_params, cpu_refs, prs, top_p, sampled, processorVars>>

\* the allocator hands the swapped-out member i one more CPU block that nobody
\* owns yet
AllocCpuBlock(i, b) ==
    /\ seqs[i].sched_phase = Swapped
    /\ cpu_refs[b] = 0
    /\ seqs' = [seqs EXCEPT ![i].cpu_blocks = Append(@, b)]
    /\ cpu_refs' = [cpu_refs EXCEPT ![b] = 1]
    /\ UNCHANGED <<sampling_params, gpu_refs, prs, top_p, sampled, processorVars>>

\* the scheduler's phase changes
SetPhase(i, from, to) ==
    /\ seqs[i].sched_phase = from
    /\ seqs' = [seqs EXCEPT ![i].sched_phase = to]
    /\ UNCHANGED <<sampling_params, gpu_refs, cpu_refs, prs, top_p, sampled, processorVars>>

StartRunning(i) == SetPhase(i, Waiting, Running)
SwapOut(i) == SetPhase(i, Running, Swapped)
SwapIn(i) == SetPhase(i, Swapped, Running)
Finish(i, reason) ==
    /\ seqs[i].sched_phase.tag # "Finished"
    /\ SetPhase(i, seqs[i].sched_phase, Finished(reason))

Members == 1 .. Len(seqs)

Next ==
    \/ \E i \in Members, t \in GenTokens : AppendToken(i, t)
    \/ \E i \in Members, id \in SeqIds \ UsedIds : ForkAs(i, id)
    \/ \E i \in Members, b \in GpuBlockIndices : AllocGpuBlock(i, b)
    \/ \E i \in Members, b \in CpuBlockIndices : AllocCpuBlock(i, b)
    \/ \E i \in Members : StartRunning(i)
    \/ \E i \in Members : SwapOut(i)
    \/ \E i \in Members : SwapIn(i)
    \/ \E i \in Members, r \in ReportedReasons : Finish(i, r)

Spec == Init /\ [][Next]_vars

----------------------------------------------------------------------------
(* The sampler on its own: one sample_topp call on a probability vector *)

\* the vectors softmax can hand over: one probability per token of the
\* vocabulary, the probabilities adding up to 1
ProbVectors ==
    {v \in [1 .. Cardinality(Vocab) -> 0 .. Units] : SumOver(v, DOMAIN v) = Units}

SamplerInit ==
    /\ seqs = <<new(0, <<CHOOSE t \in PromptTokens : TRUE>>, CHOOSE bs \in BlockSizes : TRUE)>>
    /\ sampling_params = [best_of |-> 1, use_beam_search |-> FALSE]
    /\ gpu_refs = ZeroRefs(GpuBlockIndices)
    /\ cpu_refs = ZeroRefs(CpuBlockIndices)
    /\ prs \in ProbVectors
    /\ top_p \in 1 .. (Units - 1)
    /\ sampled = NotCalled
    /\ ProcessorIdle

\* LogitsProcessor::sample_topp(prs, top_p), reached from sample when
\* 0 < top_p < 1
SampleTopp ==
    /\ sampled = NotCalled
    /\ top_p > 0 /\ top_p < Units
    /\ prs' = clamped(prs, top_p)
    /\ sampled' \in sample_multinomial(prs')
    /\ UNCHANGED <<seqs, sampling_params, gpu_refs, cpu_refs, top_p, processorVars>>

SamplerNext == SampleTopp

SamplerSpec == SamplerInit /\ [][SamplerNext]_vars

----------------------------------------------------------------------------
(* Two LogitsProcessor instances built from the same SamplingParams and fed *)
(* the same tensors                                                        *)

\* sample is called while fewer than MaxCalls values are drawn and fewer than
\* MaxCalls steps are counted as ambiguous
MaxCalls == 2
\* the values the generator can yield
Draws == {0, 11}
\* SamplingParams.temperature, in multiples of SAMPLING_EPS
Temperatures == {0, 1, 100}
\* SamplingParams.top_p, in units of 1/Units
TopPs == {0 - 5, 0, 7, Units}
\* logits, in tenths
LogitValues == {0 - 10, 0, 5, 10, 49, 50}
LogitVectors == {<<>>, <<50>>} \cup [1 .. 3 -> LogitValues]
\* entries of the vector handed to the samplers, in units of 1/Units; softmax
\* itself yields entries >= 0, the other vectors exercise WeightedIndex::new
WeightValues == {0 - 5, 0, 5, 15}
SoftmaxOutputs == {<<>>} \cup [1 .. 3 -> WeightValues]

\* the tensors a sample call of lp can read
Tensors(lp) == IF lp.temperature = None THEN LogitVectors ELSE SoftmaxOutputs

ProcessorInit ==
    /\ seqs = <<new(0, <<CHOOSE t \in PromptTokens : TRUE>>, CHOOSE bs \in BlockSizes : TRUE)>>
    /\ gpu_refs = ZeroRefs(GpuBlockIndices)
    /\ cpu_refs = ZeroRefs(CpuBlockIndices)
    /\ SamplerIdle
    /\ \E t \in Temperatures, p \in TopPs :
           sampling_params = [best_of |-> 1, use_beam_search |-> FALSE,
                              temperature |-> t, top_p |-> p]
    /\ processors = <<LogitsProcessor_new(sampling_params),
                      LogitsProcessor_new(sampling_params)>>
    /\ results = <<NotCalled, NotCalled>>
    /\ rng_stream \in [1 .. MaxCalls -> Draws]
    /\ input = <<>>

\* the call recorded in r has panicked
Panicked(r) == r # NotCalled /\ "panic" \in DOMAIN r.result

\* both instances run sample on the same tensor; a panic ends the run
Sample(tensor) ==
    /\ \A k \in 1 .. 2 :
           /\ processors[k].rng.drawn < MaxCalls
           /\ processors[k].num_ambiguous < MaxCalls
           /\ ~Panicked(results[k])
    /\ \E o1 \in sample(processors[1], tensor), o2 \in sample(processors[2], tensor) :
           /\ processors' = <<o1.lp, o2.lp>>
           /\ results' = <<[result |-> o1.result, path |-> o1.path],
                           [result |-> o2.result, path |-> o2.path]>>
    /\ input' = tensor
    /\ UNCHANGED <<seqs, sampling_params, gpu_refs, cpu_refs, prs, top_p, sampled, rng_stream>>

ProcessorNext == \E tensor \in Tensors(processors[1]) : Sample(tensor)

ProcessorSpec == ProcessorInit /\ [][ProcessorNext]_vars

----------------------------------------------------------------------------
(* Properties of Sequence and SequenceGroup *)

\* the fork that a ForkAs step has just added to the group
NewestSeq == seqs[Len(seqs)]

\* number of members in phase Running
NumRunning == Cardinality({i \in Members : seqs[i].sched_phase = Running})

\* number of members whose block list names block b
GpuOwners(b) == Cardinality({i \in Members : b \in Range(seqs[i].gpu_blocks)})
CpuOwners(b) == Cardinality({i \in Members : b \in Range(seqs[i].cpu_blocks)})

\* positions covered by the GPU block list of s
Positions(s) == 0 .. (Len(s.gpu_blocks) * s.block_size - 1)

\* C1: the sequence returned by fork_as(new_id) has the parent's token buffer
\* (same length, same tokens, same order), prompt_len, sched_phase and
\* step_type, and seq_id = new_id; get_len and get_gen_len agree with the parent.
C1_ForkEqualsParent ==
    [][\A i \in Members, id \in SeqIds :
          ForkAs(i, id) =>
              /\ NewestSeq'.tokens = seqs[i].tokens
              /\ NewestSeq'.prompt_len = seqs[i].prompt_len
              /\ NewestSeq'.sched_phase = seqs[i].sched_phase
              /\ NewestSeq'.step_type = seqs[i].step_type
              /\ NewestSeq'.seq_id = id
              /\ get_len(NewestSeq') = get_len(seqs[i])
              /\ get_gen_len(NewestSeq') = get_gen_len(seqs[i])]_vars

\* C2: fork_as adds exactly one to the reference count of every block of the
\* parent's gpu_blocks and cpu_blocks and leaves every other count alone; the
\* fork's block lists are the parent's; and every block's count is the number
\* of members whose block list names it.
C2_ForkSharesBlocks ==
    [][\A i \in Members, id \in SeqIds :
          ForkAs(i, id) =>
              /\ \A b \in GpuBlockIndices :
                     gpu_refs'[b] = gpu_refs[b]
                         + (IF b \in Range(seqs[i].gpu_blocks) THEN 1 ELSE 0)
              /\ \A b \in CpuBlockIndices :
                     cpu_refs'[b] = cpu_refs[b]
                         + (IF b \in Range(seqs[i].cpu_blocks) THEN 1 ELSE 0)
              /\ NewestSeq'.gpu_blocks = seqs[i].gpu_blocks
              /\ NewestSeq'.cpu_blocks = seqs[i].cpu_blocks
              /\ \A b \in GpuBlockIndices : gpu_refs'[b] = GpuOwners(b)'
              /\ \A b \in CpuBlockIndices : cpu_refs'[b] = CpuOwners(b)']_vars

\* a fork has happened while the parent held a GPU and a CPU block
C2_Witness ==
    /\ \E b \in GpuBlockIndices : gpu_refs[b] >= 2
    /\ \E b \in CpuBlockIndices : cpu_refs[b] >= 2

\* C3: for every covered position p, the slot get_gpu_slot(p) lies in the block
\* gpu_blocks[p div B] at offset p mod B, i.e. it is index * B + (p mod B).
C3_SlotFormula ==
    \A i \in Members :
        LET s == seqs[i]
            B == s.block_size
        IN  \A p \in Positions(s) :
                /\ get_gpu_slot(s, p) \div B = get_index(s.gpu_blocks[(p \div B) + 1])
                /\ get_gpu_slot(s, p) % B = p % B

\* a member whose two blocks are not in index order
C3_Witness ==
    \E i \in Members :
        /\ Len(seqs[i].gpu_blocks) = 2
        /\ seqs[i].gpu_blocks[1] > seqs[i].gpu_blocks[2]
        /\ get_gpu_slot(seqs[i], 0) = 2

\* C4: get_gpu_slot is injective over the positions covered by a sequence's
\* own gpu_blocks list.
C4_SlotInjective ==
    \A i \in Members :
        \A p, q \in Positions(seqs[i]) :
            p # q => get_gpu_slot(seqs[i], p) # get_gpu_slot(seqs[i], q)

\* a fork that shares a two-block list with its parent
C4_Witness ==
    /\ Len(seqs) >= 2
    /\ Len(NewestSeq.gpu_blocks) = 2
    /\ NewestSeq.gpu_blocks = seqs[1].gpu_blocks

\* C5: the group is finished iff every member's phase is Finished(reason) for
\* some reason; for a single-member group it is that member's is_finished().
C5_GroupFinished ==
    /\ group_is_finished <=>
           \A i \in Members :
               \E r \in FinishReasons : seqs[i].sched_phase = Finished(r)
    /\ \A i \in Members :
           is_finished(seqs[i]) <=>
               \E r \in FinishReasons : seqs[i].sched_phase = Finished(r)
    /\ Len(seqs) = 1 => (group_is_finished <=> is_finished(seqs[1]))

\* a group of several members in which exactly one is still unfinished
C5_Witness ==
    /\ Len(seqs) >= 2
    /\ Cardinality({i \in Members : is_finished(seqs[i])}) = Len(seqs) - 1
    /\ ~group_is_finished

\* C6: get_max_num_running_seqs is best_of under beam search; without beam
\* search it is best_of while the group holds fewer than best_of members, and
\* the number of Running members otherwise.
C6_MaxNumRunning ==
    /\ sampling_params.use_beam_search =>
           get_max_num_running_seqs = sampling_params.best_of
    /\ (~sampling_params.use_beam_search /\ Len(seqs) < sampling_params.best_of) =>
           get_max_num_running_seqs = sampling_params.best_of
    /\ (~sampling_params.use_beam_search /\ Len(seqs) >= sampling_params.best_of) =>
           get_max_num_running_seqs = NumRunning

\* best_of = 3 without beam search, three members, one of them finished and
\* two Running: the answer is 2
C6_Witness ==
    /\ sampling_params = [best_of |-> 3, use_beam_search |-> FALSE]
    /\ Len(seqs) = 3
    /\ NumRunning = 2
    /\ \E i \in Members : is_finished(seqs[i])
    /\ get_max_num_running_seqs = 2

\* C7: what get_max_num_running_seqs returns bounds the number of Running
\* members now and after every later step of the lifecycle.
C7_UpperBoundKept ==
    [][/\ NumRunning <= get_max_num_running_seqs
       /\ NumRunning' <= get_max_num_running_seqs]_vars

\* the phase changes of the lifecycle
PhaseStep(from, to) ==
    \/ from = Waiting /\ to = Running
    \/ from = Running /\ to = Swapped
    \/ from = Swapped /\ to = Running
    \/ from.tag # "Finished" /\ to.tag = "Finished"

\* C8: a Finished(r) member stays Finished(r) and finish_reason keeps
\* returning Some(r); an unfinished member's finish_reason is None; a member's
\* phase changes only along Waiting -> Running, Running <-> Swapped and
\* -> Finished(reason).
C8_FinishedIsTerminal ==
    [][\A i \in Members :
          /\ seqs[i].sched_phase.tag = "Finished" =>
                 /\ seqs'[i].sched_phase = seqs[i].sched_phase
                 /\ finish_reason(seqs[i]) = Some(seqs[i].sched_phase.reason)
                 /\ finish_reason(seqs'[i]) = finish_reason(seqs[i])
          /\ seqs[i].sched_phase.tag # "Finished" => finish_reason(seqs[i]) = None
          /\ seqs'[i].sched_phase # seqs[i].sched_phase =>
                 PhaseStep(seqs[i].sched_phase, seqs'[i].sched_phase)]_vars

\* a finished member beside a running one that went on generating
C8_Witness ==
    \E i, j \in Members :
        /\ finish_reason(seqs[i]) = Some("Aborted")
        /\ seqs[j].sched_phase = Running
        /\ get_gen_len(seqs[j]) > 0

\* C9: get_output carries the sequence's seq_id, output_tokens = the suffix
\* tokens[prompt_len..] of length get_gen_len() holding no prompt token, and a
\* finish_reason that is present iff the sequence is finished, then being the
\* reason of its Finished phase.
C9_OutputProjection ==
    \A i \in Members :
        LET s == seqs[i]
            out == get_output(s)
        IN  /\ out.seq_id = s.seq_id
            /\ Len(out.output_tokens) = get_gen_len(s)
            /\ \A k \in 1 .. Len(out.output_tokens) :
                   /\ out.output_tokens[k] = s.tokens[s.prompt_len + k]
                   /\ out.output_tokens[k] \notin PromptTokens
            /\ out.finish_reason.some <=> is_finished(s)
            /\ is_finished(s) => out.finish_reason = Some(s.sched_phase.reason)

\* index j is walked before index i: descending probability, ties in index order
Precedes(p, j, i) == p[j] > p[i] \/ (p[j] = p[i] /\ j < i)

\* C10: a sample_topp call with 0 < top_p < 1 zeroes exactly the entries for
\* which the sum of the entries walked before them and kept is >= top_p, leaves
\* every other entry as it was, never zeroes the entry walked first, and
\* returns a token of nonzero clamped probability; [0.5, 0.3, 0.15, 0.05] with
\* top_p = 0.7 becomes [0.5, 0.3, 0, 0].
C10_ToppClamps ==
    [][(sampled = NotCalled /\ sampled' # NotCalled) =>
          /\ \A i \in DOMAIN prs :
                 LET kept == {j \in DOMAIN prs : Precedes(prs, j, i) /\ prs'[j] = prs[j]}
                 IN  prs'[i] = IF SumOver(prs, kept) >= top_p THEN 0 ELSE prs[i]
          /\ \A i \in DOMAIN prs :
                 (\A j \in DOMAIN prs \ {i} : Precedes(prs, i, j)) => prs'[i] = prs[i]
          /\ sampled'.ok /\ prs'[sampled'.token + 1] > 0
          /\ (Units = 20 /\ prs = <<10, 6, 3, 1>> /\ top_p = 14) =>
                 prs' = <<10, 6, 0, 0>>]_vars

\* the call has clamped a vector given out of order, and sampled from what is left
C10_Witness ==
    /\ sampled # NotCalled
    /\ top_p = 14
    /\ prs = <<0, 6, 0, 10>>
    /\ sampled = Ok(1)

\* C15: only_seq returns the sole member of a one-member group and panics for
\* every other group size, so it never hands out a member of a larger group.
C15_OnlySeq ==
    /\ Len(seqs) = 1 => only_seq = Returned(seqs[1])
    /\ Len(seqs) # 1 => only_seq = Panic("num seq != 1")

\* the group has grown by add() beyond one member
C15_Witness ==
    /\ Len(seqs) >= 2
    /\ only_seq = Panic("num seq != 1")

\* positions up to two blocks past the capacity of s
ProbedPositions(s) == 0 .. ((Len(s.gpu_blocks) + 2) * s.block_size)

\* C16: get_gpu_slot panics with an index out of range for every position
\* >= len(gpu_blocks) * block_size, and a slot it returns lies in a block of
\* the sequence's own gpu_blocks list.
C16_SlotOutOfRange ==
    \A i \in Members :
        LET s == seqs[i]
        IN  \A p \in ProbedPositions(s) :
                /\ p >= Len(s.gpu_blocks) * s.block_size =>
                       get_gpu_slot_result(s, p) = Panic("index out of bounds")
                /\ p < Len(s.gpu_blocks) * s.block_size =>
                       \E k \in DOMAIN s.gpu_blocks :
                           get_gpu_slot_result(s, p) \in
                               {Returned(get_index(s.gpu_blocks[k]) * s.block_size + o) :
                                    o \in 0 .. (s.block_size - 1)}

\* a member holding one block and more tokens than the block has slots
C16_Witness ==
    \E i \in Members :
        /\ Len(seqs[i].gpu_blocks) = 1
        /\ get_len(seqs[i]) > seqs[i].block_size
        /\ get_gpu_slot_result(seqs[i], seqs[i].block_size) = Panic("index out of bounds")

\* C17: in every reachable state the GPU block list covers the token buffer:
\* len(gpu_blocks) * block_size >= tokens.len().
C17_BlocksCoverTokens ==
    \A i \in Members :
        Len(seqs[i].gpu_blocks) * seqs[i].block_size >= Len(seqs[i].tokens)

\* C18: a new sequence is Waiting with prompt_len = get_len and get_gen_len = 0;
\* append_token_id puts exactly one token at the end and leaves prompt_len,
\* the tokens already there, the phase, the id and the block lists alone; and
\* tokens.len() >= prompt_len throughout.
C18_NewAndAppend ==
    /\ (/\ Len(seqs) = 1
        /\ seqs[1].sched_phase = Waiting
        /\ seqs[1].prompt_len = get_len(seqs[1])
        /\ get_gen_len(seqs[1]) = 0)
    /\ [][\A i \in Members, t \in GenTokens :
             AppendToken(i, t) =>
                 /\ seqs'[i].tokens = Append(seqs[i].tokens, t)
                 /\ get_len(seqs'[i]) = get_len(seqs[i]) + 1
                 /\ get_gen_len(seqs'[i]) = get_gen_len(seqs[i]) + 1
                 /\ seqs'[i] = [seqs[i] EXCEPT !.tokens = seqs'[i].tokens]]_vars
    /\ [](\A i \in Members :
             /\ Len(seqs[i].tokens) >= seqs[i].prompt_len
             /\ get_gen_len(seqs[i]) >= 0
             /\ i = 1 => get_gen_len(seqs[i]) =
                             Cardinality({k \in DOMAIN seqs[i].tokens :
                                              seqs[i].tokens[k] \in GenTokens}))

\* the sequence built by new has generated its first token
C18_Witness ==
    /\ seqs[1].prompt_len = 1
    /\ seqs[1].tokens = <<10, 20>>
    /\ get_gen_len(seqs[1]) = 1

----------------------------------------------------------------------------
(* Properties of LogitsProcessor *)

\* the largest logit and the largest of the remaining ones
MaxOf(S) == CHOOSE m \in S : \A x \in S : x <= m
TopLogit(logits) == MaxOf(Range(logits))
SecondLogit(logits) ==
    LET first == CHOOSE i \in DOMAIN logits : logits[i] = TopLogit(logits)
    IN  MaxOf({logits[i] : i \in DOMAIN logits \ {first}})

\* a step in which instance k ran sample in greedy mode on two logits or more
ArgmaxStep(k) ==
    /\ processors' # processors \/ results' # results \/ input' # input
    /\ results'[k].path = "sample_argmax"
    /\ Len(input') >= 2

\* C11: sample_argmax returns the index of the largest logit; it adds exactly
\* one to num_ambiguous if (top1 - top2) / top1 < 0.05 and leaves the counter
\* alone otherwise; <<5.0, 4.9, 1.0>> is counted and <<5.0, 1.0, 0.5>> is not
C11_ArgmaxAndAmbiguity ==
    [][\A k \in 1 .. 2 :
         ArgmaxStep(k) =>
           LET top1 == TopLogit(input')
               top2 == SecondLogit(input')
               token == results'[k].result.token
               counted == processors'[k].num_ambiguous - processors[k].num_ambiguous
           IN  /\ results'[k].result.ok
               /\ input'[token + 1] = top1
               /\ counted \in {0, 1}
               /\ top1 > 0 => (counted = 1 <=> 20 * (top1 - top2) < top1)
               /\ top1 < 0 => (counted = 1 <=> 20 * (top1 - top2) > top1)
               /\ input' = <<50, 49, 10>> => counted = 1
               /\ input' = <<50, 10, 5>> => counted = 0]_vars

\* a greedy call on <<5.0, 4.9, 1.0>> has returned token 0 and was counted
C11_Witness ==
    /\ input = <<50, 49, 10>>
    /\ results[1] = [result |-> Ok(0), path |-> "sample_argmax"]
    /\ processors[1].num_ambiguous = 1

\* a step in which the instances ran sample
SampleStep == processorVars' # processorVars

\* what the step has left of instance k
OutcomeOf(k) == Outcome(processors'[k], results'[k].result)

\* C14: sample runs exactly one of its three methods, chosen by the
\* configuration alone: sample_argmax if the configured temperature is below
\* SAMPLING_EPS (stored as None), else sample_multinomial if top_p <= 0 or
\* top_p >= 1, else sample_topp
C14_ModeSelection ==
    [][\A k \in 1 .. 2 :
         SampleStep =>
           LET path == results'[k].path
               greedy == sampling_params.temperature < SAMPLING_EPS
               full == sampling_params.top_p <= 0 \/ sampling_params.top_p >= Units
           IN  /\ greedy <=> processors[k].temperature = None
               /\ path = "sample_argmax" <=> greedy
               /\ path = "sample_multinomial" <=> ~greedy /\ full
               /\ path = "sample_topp" <=> ~greedy /\ ~full
               /\ path = "sample_argmax" =>
                      OutcomeOf(k) = sample_argmax(processors[k], input')
               /\ path = "sample_multinomial" =>
                      OutcomeOf(k) \in sample_multinomial_with(processors[k], input')
               /\ path = "sample_topp" =>
                      OutcomeOf(k) \in sample_topp(processors[k], input', sampling_params.top_p)]_vars

\* temperature exactly SAMPLING_EPS and top_p exactly 0: the full distribution
\* was sampled
C14_Witness ==
    /\ sampling_params.temperature = SAMPLING_EPS
    /\ sampling_params.top_p = 0
    /\ results[1] \in {[result |-> Ok(t), path |-> "sample_multinomial"] : t \in 0 .. 2}

\* an empty vector, a negative weight, or no positive weight
InvalidWeights(p) ==
    \/ p = <<>>
    \/ \E i \in DOMAIN p : p[i] < 0
    \/ \A i \in DOMAIN p : p[i] = 0

\* C13: in temperature mode sample returns an error exactly when the vector
\* sample_multinomial is given is invalid (through sample_topp: the vector
\* after clamping); a valid vector yields an index of strictly positive
\* weight; the call never panics and an error is never turned into a token
C13_InvalidWeightsFail ==
    [][\A k \in 1 .. 2 :
         SampleStep /\ results'[k].path # "sample_argmax" =>
           LET weights == IF results'[k].path = "sample_topp"
                          THEN clamped(input', processors[k].top_p)
                          ELSE input'
               result == results'[k].result
           IN  /\ ~Panicked(results'[k])
               /\ InvalidWeights(weights) <=> result = Err
               /\ ~InvalidWeights(weights) =>
                      /\ result.ok
                      /\ weights[result.token + 1] > 0]_vars

\* sample_topp has handed on the error of a vector whose negative weight
\* survived the clamping
C13_Witness ==
    /\ results[1] = [result |-> Err, path |-> "sample_topp"]
    /\ \E i \in DOMAIN input : input[i] < 0

\* C20: num_ambiguous never decreases and changes in greedy mode only; a
\* greedy call leaves the generator alone and its token is the first index of
\* the largest of the current logits; a call in temperature mode and a call
\* that returns an error leave num_ambiguous unchanged
C20_AmbiguousCounterFrame ==
    [][\A k \in 1 .. 2 :
         SampleStep =>
           LET lp == processors[k]
               after == processors'[k]
               result == results'[k].result
           IN  /\ after.num_ambiguous >= lp.num_ambiguous
               /\ after.num_ambiguous # lp.num_ambiguous => lp.temperature = None
               /\ lp.temperature = None =>
                      /\ after.rng = lp.rng
                      /\ Len(input') >= 2 =>
                             result = Ok((CHOOSE i \in DOMAIN input' :
                                            /\ input'[i] = TopLogit(input')
                                            /\ \A j \in 1 .. (i - 1) : input'[j] < input'[i]) - 1)
               /\ lp.temperature # None => after.num_ambiguous = lp.num_ambiguous
               /\ result = Err => after.num_ambiguous = lp.num_ambiguous
               /\ after.temperature = lp.temperature
               /\ after.top_p = lp.top_p]_vars

\* two greedy calls were counted as ambiguous and no value was drawn
C20_Witness ==
    /\ processors[1].temperature = None
    /\ processors[1].num_ambiguous = 2
    /\ processors[1].rng = seed_from_u64(Seed)
    /\ results[1] \in {[result |-> Ok(t), path |-> "sample_argmax"] : t \in 0 .. 2}

====
